---- MODULE Spec2Model ----
(***************************************************************************)
(* The ledger engine of the two desktop expense-ledger programs            *)
(* (src/utils.py and src/xxxxxxxxx.py): rate lookups, Ledger operations    *)
(* and CSV persistence, as a state machine.                                *)
(*                                                                         *)
(* Units.  Money is held in mills (1/1000, so that amounts with three       *)
(* fractional digits exist: 10.126 is 10126, 53.00 is 53000), a rate in    *)
(* tenths (5.3 is 53, 1.0 is 10).  round(x, 2) is Round2.                  *)
(* A date string is a tuple: "2024-01-15" is <<2024, 1, 15>>, "2024-01"    *)
(* is <<2024, 1>>.  An optional rate (a float or None) is a record         *)
(* [some, rate].  A note is a tuple of one-character strings.              *)
(***************************************************************************)
EXTENDS Integers, Sequences, FiniteSets, TLC

\* ------------------------------------------------------------------ bounds
MaxRows == 2
MaxCalls == 3
MaxMonthRows == 3

\* ------------------------------------------------------- which source file
Impls == {"utils", "xxxxxxxxx"}

\* ---------------------------------------------------------------- inputs
NoArg == "<none>"
Today == <<2026, 11, 5>>
Amounts == {10126}
CategoryArgs == {"Food"}
NoteArgs == {<<" ", "a", " ">>}
DateArgs == {<<>>, <<2024, 1>>}
BaseCurrencyArgs == {NoArg, "USD"}
TargetArgs == {"USD", "EUR"}
\* A Python float that is not an amount of the ledger's records: a number
\* (in mills) or nan.
Float(v) == [nan |-> FALSE, val |-> v]
NaN == [nan |-> TRUE, val |-> 0]

\* What the user types in the budget field: text float() rejects, "-5",
\* "0", "300", "nan".
BudgetArgs ==
    { [num |-> FALSE, f |-> Float(0)], [num |-> TRUE, f |-> Float(0 - 5000)],
      [num |-> TRUE, f |-> Float(0)], [num |-> TRUE, f |-> Float(300000)],
      [num |-> TRUE, f |-> NaN] }

\* ------------------------------------------------------------- arithmetic
\* The integer nearest to n/d, ties to the even one.
RoundHalfEven(n, d) ==
    LET q == n \div d
        r == n % d
    IN  IF 2 * r < d THEN q
        ELSE IF 2 * r > d THEN q + 1
        ELSE IF q % 2 = 0 THEN q ELSE q + 1

\* Python's round(x, 2) of the amount n/d hundredths, in mills.
Round2(n, d) == 10 * RoundHalfEven(n, d)

\* str.strip() on a note
RECURSIVE LStrip(_)
LStrip(s) == IF s # <<>> /\ Head(s) = " " THEN LStrip(Tail(s)) ELSE s

RECURSIVE RStrip(_)
RStrip(s) ==
    IF s # <<>> /\ s[Len(s)] = " " THEN RStrip(SubSeq(s, 1, Len(s) - 1)) ELSE s

Strip(s) == RStrip(LStrip(s))

\* -------------------------------------------------------- the rate service
\* What one HTTP request to the rate service does: it answers with the rate,
\* answers 200 without the target currency, fails in the network layer, or
\* answers with an error status and a JSON error body that has no "rates".
Outcomes == {"ok", "absent", "neterr", "httperr"}

\* The service's "latest" rate for a pair, in tenths.
LatestRate(base, target) ==
    IF base = target THEN 10
    ELSE IF base = "SGD" /\ target = "CNY" THEN 53
    ELSE IF base = "USD" /\ target = "CNY" THEN 72
    ELSE IF base = "SGD" THEN 7
    ELSE 13

\* The service's rate for a pair on a day (differs from the latest one and
\* from day to day).
DayRate(base, target, day) == LatestRate(base, target) + day[3]

\* Optional rates.
Nothing == [some |-> FALSE, rate |-> 0]
Some(r) == [some |-> TRUE, rate |-> r]

\* The result of a lookup: value, whether an exception left the function,
\* and the number of requests it sent.
Returned(v, n) == [raised |-> FALSE, val |-> v, reqs |-> n]
Raised(n) == [raised |-> TRUE, val |-> Nothing, reqs |-> n]

\* datetime.strptime(date_str, fmt) over the formats each file tries, then
\* strftime("%Y-%m-%d"); <<>> when no format matches.
FormatDate(impl, date_str) ==
    IF Len(date_str) = 3 THEN date_str
    ELSE IF impl = "utils" THEN <<>>
    ELSE IF Len(date_str) = 2 THEN <<date_str[1], date_str[2], 1>>
    ELSE IF Len(date_str) = 1 THEN <<date_str[1], 1, 1>>
    ELSE <<>>

get_historical_exchange_rate(impl, base_currency, target_currency, date_str, o) ==
    IF base_currency = target_currency THEN Returned(Some(10), 0)
    ELSE LET formatted_date == FormatDate(impl, date_str) IN
         IF formatted_date = <<>> THEN Returned(Nothing, 0)
         ELSE IF o = "ok"
              THEN Returned(Some(DayRate(base_currency, target_currency, formatted_date)), 1)
         ELSE IF o = "httperr" /\ impl = "xxxxxxxxx" THEN Raised(1)
         ELSE Returned(Nothing, 1)

get_exchange_rate(impl, base_currency, target_currency, o) ==
    IF impl = "utils" /\ base_currency = target_currency THEN Returned(Some(10), 0)
    ELSE IF o = "ok" THEN Returned(Some(LatestRate(base_currency, target_currency)), 1)
    ELSE IF o = "httperr" /\ impl = "xxxxxxxxx" THEN Raised(1)
    ELSE Returned(Nothing, 1)


\* ------------------------------------------------------------- the ledger
\* One record of Ledger.rows.
Row(date, base_amount, base_currency, amount, target_currency, category, note, exchange_rate) ==
    [date |-> date, base_amount |-> base_amount, base_currency |-> base_currency,
     amount |-> amount, target_currency |-> target_currency, category |-> category,
     note |-> note, exchange_rate |-> exchange_rate]

\* The result of a Ledger method: the ledger it leaves, the exception that
\* left it ("" when it returned), what it returned ("none", "true", "false")
\* and the requests it sent.
Result(self, exc, ret, reqs) ==
    [self |-> self, raised |-> exc # "", exc |-> exc, ret |-> ret, reqs |-> reqs]

\* Ledger.__init__; o is the outcome of the default-rate request.
Ledger_init(impl, o) ==
    LET r == get_exchange_rate(impl, "SGD", "CNY", o)
        rate == IF impl = "utils" /\ ~r.val.some THEN Some(10) ELSE r.val
    IN  Result([rows |-> <<>>, month_budget |-> Float(0), base_currency |-> "SGD",
                target_currency |-> "CNY", exchange_rate |-> rate,
                target_currency_locked |-> FALSE],
               IF r.raised THEN "KeyError" ELSE "", "none", r.reqs)

\* The rate Ledger.add resolves, as a lookup result; oh and ol are the
\* outcomes of the historical and of the latest request.
add_rate(impl, self, base_curr, date_str, oh, ol) ==
    LET h == get_historical_exchange_rate(impl, base_curr, self.target_currency, date_str, oh)
        l == get_exchange_rate(impl, base_curr, self.target_currency, ol)
    IN  IF h.raised \/ h.val.some THEN h
        ELSE IF l.raised THEN Raised(h.reqs + l.reqs)
        ELSE IF l.val.some THEN Returned(l.val, h.reqs + l.reqs)
        ELSE IF impl = "utils" THEN Returned(Some(10), h.reqs + l.reqs)
        ELSE IF base_curr = self.base_currency
             THEN Returned(self.exchange_rate, h.reqs + l.reqs)
        ELSE Returned(Some(10), h.reqs + l.reqs)

\* Mutant of add: the record is inserted at the front of the list.
add_at_front(impl, self, amount, category, note, date, base_currency, oh, ol) ==
    LET base_curr == IF base_currency # NoArg THEN base_currency ELSE self.base_currency
        date_str  == IF date # <<>> THEN date ELSE Today
        r == add_rate(impl, self, base_curr, date_str, oh, ol)
    IN  IF r.raised THEN Result(self, "KeyError", "none", r.reqs)
        ELSE IF ~r.val.some THEN Result(self, "TypeError", "none", r.reqs)
        ELSE LET exchange_rate == r.val.rate
                 converted == Round2(amount * exchange_rate, 100)
                 row == Row(date_str, Round2(amount, 10), base_curr, converted,
                            self.target_currency, category, Strip(note), exchange_rate)
             IN  Result([self EXCEPT !.rows = <<row>> \o @], "", "none", r.reqs)

\* Mutant of add: the converted amount is computed from the rounded
\* base_amount.
add_converts_rounded(impl, self, amount, category, note, date, base_currency, oh, ol) ==
    LET base_curr == IF base_currency # NoArg THEN base_currency ELSE self.base_currency
        date_str  == IF date # <<>> THEN date ELSE Today
        r == add_rate(impl, self, base_curr, date_str, oh, ol)
    IN  IF r.raised THEN Result(self, "KeyError", "none", r.reqs)
        ELSE IF ~r.val.some THEN Result(self, "TypeError", "none", r.reqs)
        ELSE LET exchange_rate == r.val.rate
                 converted == Round2(Round2(amount, 10) * exchange_rate, 100)
                 row == Row(date_str, Round2(amount, 10), base_curr, converted,
                            self.target_currency, category, Strip(note), exchange_rate)
             IN  Result([self EXCEPT !.rows = Append(@, row)], "", "none", r.reqs)

\* Ledger.add.  A rate of None makes float(amount) * exchange_rate raise
\* TypeError before anything is appended.
add(impl, self, amount, category, note, date, base_currency, oh, ol) ==
    LET base_curr == IF base_currency # NoArg THEN base_currency ELSE self.base_currency
        date_str  == IF date # <<>> THEN date ELSE Today
        r == add_rate(impl, self, base_curr, date_str, oh, ol)
    IN  IF r.raised THEN Result(self, "KeyError", "none", r.reqs)
        ELSE IF ~r.val.some THEN Result(self, "TypeError", "none", r.reqs)
        ELSE LET exchange_rate == r.val.rate
                 converted == Round2(amount * exchange_rate, 100)
                 row == Row(date_str, Round2(amount, 10), base_curr, converted,
                            self.target_currency, category, Strip(note), exchange_rate)
             IN  Result([self EXCEPT !.rows = Append(@, row)], "", "none", r.reqs)

\* One pass of the loop body of Ledger.set_target_currency over a record:
\* the record it leaves, whether the lookup raised, the requests sent.
set_target_row(impl, row, currency, oh, ol) ==
    LET h == get_historical_exchange_rate(impl, row.base_currency, currency, row.date, oh)
        l == get_exchange_rate(impl, row.base_currency, currency, ol)
        Update(rate) == [row EXCEPT !.exchange_rate = rate,
                                    !.amount = Round2(row.base_amount * rate, 100),
                                    !.target_currency = currency]
    IN  IF impl = "utils"
        THEN IF h.val.some THEN [row |-> Update(h.val.rate), raised |-> FALSE, reqs |-> h.reqs]
             ELSE IF l.val.some
                  THEN [row |-> Update(l.val.rate), raised |-> FALSE, reqs |-> h.reqs + l.reqs]
             ELSE [row |-> Update(10), raised |-> FALSE, reqs |-> h.reqs + l.reqs]
        ELSE IF h.raised THEN [row |-> row, raised |-> TRUE, reqs |-> h.reqs]
             ELSE IF h.val.some
                  THEN [row |-> Update(h.val.rate), raised |-> FALSE, reqs |-> h.reqs]
             ELSE [row |-> row, raised |-> FALSE, reqs |-> h.reqs]

\* The loop of Ledger.set_target_currency: every way it can end, over the
\* outcomes of the requests it sends (done: records already passed, rest:
\* records still to visit).
RECURSIVE set_target_loop(_, _, _, _, _)
set_target_loop(impl, done, rest, currency, reqs) ==
    IF rest = <<>> THEN {[rows |-> done, raised |-> FALSE, reqs |-> reqs]}
    ELSE LET passes == { set_target_row(impl, Head(rest), currency, oh, ol)
                         : oh \in Outcomes, ol \in Outcomes }
         IN  UNION { IF s.raised
                     THEN {[rows |-> done \o rest, raised |-> TRUE, reqs |-> reqs + s.reqs]}
                     ELSE set_target_loop(impl, Append(done, s.row), Tail(rest),
                                          currency, reqs + s.reqs)
                     : s \in passes }

\* Mutant of set_target_currency: the lock is not tested.
set_target_currency_unguarded(impl, self, currency) ==
    { Result([self EXCEPT !.target_currency = currency,
                          !.target_currency_locked = TRUE,
                          !.rows = e.rows],
             IF e.raised THEN "KeyError" ELSE "",
             IF e.raised THEN "none" ELSE "true", e.reqs)
      : e \in set_target_loop(impl, <<>>, self.rows, currency, 0) }

\* Ledger.set_target_currency: the set of its possible results.
set_target_currency(impl, self, currency) ==
    IF ~self.target_currency_locked
    THEN { Result([self EXCEPT !.target_currency = currency,
                               !.target_currency_locked = TRUE,
                               !.rows = e.rows],
                  IF e.raised THEN "KeyError" ELSE "",
                  IF e.raised THEN "none" ELSE "true", e.reqs)
           : e \in set_target_loop(impl, <<>>, self.rows, currency, 0) }
    ELSE { Result(self, "", "false", 0) }


\* Python's del self.rows[i]: the position i names, 0 when i is out of range
\* (1-based position in the sequence; a negative i counts from the end).
DelPosition(rows, i) ==
    IF 0 <= i /\ i < Len(rows) THEN i + 1
    ELSE IF i < 0 /\ 0 - i <= Len(rows) THEN Len(rows) + i + 1
    ELSE 0

RemoveAt(rows, p) == SubSeq(rows, 1, p - 1) \o SubSeq(rows, p + 1, Len(rows))

\* sorted(indices, reverse=True)
RECURSIVE SortedReverse(_)
SortedReverse(indices) ==
    IF indices = <<>> THEN <<>>
    ELSE LET m == CHOOSE k \in 1..Len(indices) :
                      \A j \in 1..Len(indices) : indices[j] <= indices[k]
         IN  <<indices[m]>> \o SortedReverse(RemoveAt(indices, m))

\* The loop of Ledger.remove_by_indices over the sorted positions.
RECURSIVE remove_loop(_, _)
remove_loop(rows, order) ==
    IF order = <<>> THEN [rows |-> rows, raised |-> FALSE]
    ELSE LET p == DelPosition(rows, Head(order))
         IN  IF p = 0 THEN [rows |-> rows, raised |-> TRUE]
             ELSE remove_loop(RemoveAt(rows, p), Tail(order))

\* Ledger.remove_by_indices
remove_by_indices(self, indices) ==
    LET e == remove_loop(self.rows, SortedReverse(indices))
    IN  Result([self EXCEPT !.rows = e.rows], IF e.raised THEN "IndexError" ELSE "", "none", 0)

\* ------------------------------------------------------------- aggregates
\* datetime.now().strftime("%Y-%m")
ThisMonth == <<Today[1], Today[2]>>

\* str.startswith
StartsWith(str, prefix) ==
    Len(str) >= Len(prefix) /\ SubSeq(str, 1, Len(prefix)) = prefix

\* a < b for two date strings of zero-padded numbers separated by "-"
\* (a proper prefix is smaller).
RECURSIVE StrLess(_, _)
StrLess(a, b) ==
    IF b = <<>> THEN FALSE
    ELSE IF a = <<>> THEN TRUE
    ELSE IF Head(a) # Head(b) THEN Head(a) < Head(b)
    ELSE StrLess(Tail(a), Tail(b))

\* sum(r["amount"] for r in self.rows if r["date"].startswith(now))
RECURSIVE month_sum(_, _)
month_sum(rows, now) ==
    IF rows = <<>> THEN 0
    ELSE (IF StartsWith(Head(rows).date, now) THEN Head(rows).amount ELSE 0)
         + month_sum(Tail(rows), now)

\* Mutant of total_this_month: the records of every month are summed.
total_of_all_months(self) ==
    Round2(month_sum(self.rows, <<>>), 10)

\* Ledger.total_this_month
total_this_month(self) ==
    Round2(month_sum(self.rows, ThisMonth), 10)

\* sums[key] += amount on a defaultdict(float), kept in insertion order as
\* a sequence of <<key, sum>> pairs.
AddTo(sums, key, amount) ==
    IF \E i \in 1..Len(sums) : sums[i][1] = key
    THEN [i \in 1..Len(sums) |->
             IF sums[i][1] = key THEN <<key, sums[i][2] + amount>> ELSE sums[i]]
    ELSE Append(sums, <<key, amount>>)

\* The loop of summary_by_category (field "category") and of
\* daily_totals_this_month (field "date") over the records left to visit.
RECURSIVE month_sums(_, _, _, _)
month_sums(rows, now, field, sums) ==
    IF rows = <<>> THEN sums
    ELSE month_sums(Tail(rows), now, field,
                    IF StartsWith(Head(rows).date, now)
                    THEN AddTo(sums, Head(rows)[field], Head(rows).amount)
                    ELSE sums)

\* sorted(items, key=lambda x: -x[1]): stable, so an item goes behind the
\* items of the same total that precede it.
RECURSIVE SortedByTotalDesc(_)
SortedByTotalDesc(items) ==
    IF items = <<>> THEN <<>>
    ELSE LET rest == SortedByTotalDesc(SubSeq(items, 1, Len(items) - 1))
             e == items[Len(items)]
             n == Cardinality({i \in 1..Len(rest) : rest[i][2] >= e[2]})
         IN  SubSeq(rest, 1, n) \o <<e>> \o SubSeq(rest, n + 1, Len(rest))

\* sorted(items) on (date, total) pairs of different dates.
RECURSIVE SortedByDate(_)
SortedByDate(items) ==
    IF items = <<>> THEN <<>>
    ELSE LET rest == SortedByDate(SubSeq(items, 1, Len(items) - 1))
             e == items[Len(items)]
             n == Cardinality({i \in 1..Len(rest) : StrLess(rest[i][1], e[1])})
         IN  SubSeq(rest, 1, n) \o <<e>> \o SubSeq(rest, n + 1, Len(rest))

\* Mutant of summary_by_category: the entries stay in insertion order.
summary_by_category_unsorted(self) ==
    month_sums(self.rows, ThisMonth, "category", <<>>)

\* Ledger.summary_by_category: the dict, as its (category, total) items in
\* order.
summary_by_category(self) ==
    SortedByTotalDesc(month_sums(self.rows, ThisMonth, "category", <<>>))

\* Mutant of daily_totals_this_month: the entries stay in insertion order.
daily_totals_unsorted(self) ==
    month_sums(self.rows, ThisMonth, "date", <<>>)

\* Ledger.daily_totals_this_month
daily_totals_this_month(self) ==
    SortedByDate(month_sums(self.rows, ThisMonth, "date", <<>>))

\* ------------------------------------------------------------------- CSV
\* A numeric field of a CSV line is a cell: the text of a number ("num",
\* with its value), the empty text, or some other text.
NumCell(v) == [kind |-> "num", val |-> v]
EmptyCell == [kind |-> "empty", val |-> 0]
BadCell == [kind |-> "bad", val |-> 0]

\* A CSV file: whether its header has the exchange_rate column, and its
\* data lines in order.
CsvFile(rate_col, lines) == [rate_col |-> rate_col, lines |-> lines]

\* What csv.DictWriter writes for a record: str() of every field.
WriteLine(row) ==
    [date |-> row.date, base_amount |-> NumCell(row.base_amount),
     base_currency |-> row.base_currency, amount |-> NumCell(row.amount),
     target_currency |-> row.target_currency, category |-> row.category,
     exchange_rate |-> NumCell(row.exchange_rate), note |-> row.note]

\* Mutant of save_csv: the records are written last to first.
save_csv_reversed(self) ==
    CsvFile(TRUE, [k \in 1..Len(self.rows) |-> WriteLine(self.rows[Len(self.rows) + 1 - k])])

\* Ledger.save_csv: the file it writes.
save_csv(self) ==
    CsvFile(TRUE, [k \in 1..Len(self.rows) |-> WriteLine(self.rows[k])])

\* float(text): does it raise ValueError
FloatRaises(cell) == cell.kind # "num"

\* The three float() conversions of Ledger.load_csv on one line; a line of
\* a file without the exchange_rate column gets float(1.0).
LineRaises(file, line) ==
    \/ FloatRaises(line.base_amount)
    \/ FloatRaises(line.amount)
    \/ file.rate_col /\ FloatRaises(line.exchange_rate)

ReadLine(file, line) ==
    Row(line.date, line.base_amount.val, line.base_currency, line.amount.val,
        line.target_currency, line.category, line.note,
        IF file.rate_col THEN line.exchange_rate.val ELSE 10)

\* The reading loop of Ledger.load_csv: the records appended before the
\* first line whose conversion raises, and whether one did.
RECURSIVE load_loop(_, _, _)
load_loop(file, k, rows) ==
    IF k > Len(file.lines) THEN [rows |-> rows, raised |-> FALSE]
    ELSE IF LineRaises(file, file.lines[k]) THEN [rows |-> rows, raised |-> TRUE]
    ELSE load_loop(file, k + 1, Append(rows, ReadLine(file, file.lines[k])))

\* Mutant of load_csv: clearing the records also clears the lock.
load_csv_clears_lock(self, readable, file) ==
    LET cleared == [self EXCEPT !.rows = <<>>, !.target_currency_locked = FALSE]
        e == load_loop(file, 1, <<>>)
    IN  IF ~readable THEN Result(cleared, "OSError", "none", 0)
        ELSE IF e.raised THEN Result([cleared EXCEPT !.rows = e.rows], "ValueError", "none", 0)
        ELSE IF e.rows = <<>> THEN Result(cleared, "", "none", 0)
        ELSE Result([cleared EXCEPT
                        !.rows = e.rows,
                        !.target_currency =
                            IF e.rows[1].target_currency # "" THEN e.rows[1].target_currency
                            ELSE "CNY",
                        !.target_currency_locked = TRUE],
                    "", "none", 0)

\* Mutant of load_csv: the branch that falls back to "CNY" does not lock.
load_csv_default_unlocked(self, readable, file) ==
    LET cleared == [self EXCEPT !.rows = <<>>]
        e == load_loop(file, 1, <<>>)
    IN  IF ~readable THEN Result(cleared, "OSError", "none", 0)
        ELSE IF e.raised THEN Result([cleared EXCEPT !.rows = e.rows], "ValueError", "none", 0)
        ELSE IF e.rows = <<>> THEN Result(cleared, "", "none", 0)
        ELSE IF e.rows[1].target_currency # ""
             THEN Result([cleared EXCEPT !.rows = e.rows,
                                         !.target_currency = e.rows[1].target_currency,
                                         !.target_currency_locked = TRUE],
                         "", "none", 0)
        ELSE Result([cleared EXCEPT !.rows = e.rows, !.target_currency = "CNY"],
                    "", "none", 0)

\* Mutant of load_csv: a ledger that is already locked keeps its target
\* currency when the first row names none.
load_csv_keeps_locked_target(self, readable, file) ==
    LET cleared == [self EXCEPT !.rows = <<>>]
        e == load_loop(file, 1, <<>>)
    IN  IF ~readable THEN Result(cleared, "OSError", "none", 0)
        ELSE IF e.raised THEN Result([cleared EXCEPT !.rows = e.rows], "ValueError", "none", 0)
        ELSE IF e.rows = <<>> THEN Result(cleared, "", "none", 0)
        ELSE Result([cleared EXCEPT
                        !.rows = e.rows,
                        !.target_currency =
                            IF e.rows[1].target_currency # "" THEN e.rows[1].target_currency
                            ELSE IF self.target_currency_locked THEN @
                            ELSE "CNY",
                        !.target_currency_locked = TRUE],
                    "", "none", 0)

\* Mutant of load_csv: the records read are added to those already held.
load_csv_appends(self, readable, file) ==
    LET e == load_loop(file, 1, self.rows)
    IN  IF ~readable THEN Result(self, "OSError", "none", 0)
        ELSE IF e.raised THEN Result([self EXCEPT !.rows = e.rows], "ValueError", "none", 0)
        ELSE IF e.rows = <<>> THEN Result(self, "", "none", 0)
        ELSE Result([self EXCEPT
                        !.rows = e.rows,
                        !.target_currency =
                            IF e.rows[1].target_currency # "" THEN e.rows[1].target_currency
                            ELSE "CNY",
                        !.target_currency_locked = TRUE],
                    "", "none", 0)

\* Ledger.load_csv; readable is whether open(path) succeeds.
load_csv(self, readable, file) ==
    LET cleared == [self EXCEPT !.rows = <<>>]
        e == load_loop(file, 1, <<>>)
    IN  IF ~readable THEN Result(cleared, "OSError", "none", 0)
        ELSE IF e.raised THEN Result([cleared EXCEPT !.rows = e.rows], "ValueError", "none", 0)
        ELSE IF e.rows = <<>> THEN Result(cleared, "", "none", 0)
        ELSE Result([cleared EXCEPT
                        !.rows = e.rows,
                        !.target_currency =
                            IF e.rows[1].target_currency # "" THEN e.rows[1].target_currency
                            ELSE "CNY",
                        !.target_currency_locked = TRUE],
                    "", "none", 0)

\* Files a user may import that no save_csv of this session wrote.
GoodLine(target) ==
    [date |-> <<2024, 1, 15>>, base_amount |-> NumCell(10000), base_currency |-> "SGD",
     amount |-> NumCell(53000), target_currency |-> target, category |-> "Food",
     exchange_rate |-> NumCell(53), note |-> <<"a">>]

ImportFiles ==
    { CsvFile(TRUE, <<>>),
      CsvFile(TRUE, <<GoodLine("EUR")>>),
      CsvFile(TRUE, <<GoodLine(""), GoodLine("EUR")>>),
      CsvFile(FALSE, <<GoodLine("CNY")>>),
      CsvFile(TRUE, <<GoodLine("EUR"), [GoodLine("EUR") EXCEPT !.amount = BadCell]>>),
      CsvFile(TRUE, <<[GoodLine("EUR") EXCEPT !.base_amount = BadCell]>>),
      CsvFile(TRUE, <<[GoodLine("EUR") EXCEPT !.exchange_rate = EmptyCell]>>) }


IndexValues == (0 - 1)..MaxRows
IndexArgs ==
    {<<>>} \cup {<<i>> : i \in IndexValues} \cup {<<i, j>> : i \in IndexValues, j \in IndexValues}

\* ----------------------------------------------------------------- state
VARIABLES
    impl,      \* which of the two source files runs
    ledger,    \* the Ledger object (App.ledger)
    disk,      \* the CSV file the last successful save_csv wrote, if any
    lastOp,    \* the last call: its name, whether it raised, its return value,
               \* the requests it sent to the rate service
    app,       \* the App object: its flags target_disabled and budget_disabled,
               \* and the records its table shows, in table order
    session    \* how many calls were made since construction: all of them,
               \* those of set_target_currency, those that returned True,
               \* those of load_csv; and the currency given to the first
               \* call of set_target_currency ("" before it)

vars == <<impl, ledger, disk, lastOp, app, session>>

\* App.__init__: the flags, and the empty table _build_table leaves.
App_init == [target_disabled |-> FALSE, budget_disabled |-> FALSE, tree |-> <<>>]

\* b < 0 on a float: False for nan.
LessThanZero(f) == ~f.nan /\ f.val < 0

\* App._set_budget_dialog: the App and the ledger it leaves.
App_set_budget_dialog(a, self, budget_str) ==
    IF budget_str.num /\ ~LessThanZero(budget_str.f)
    THEN [app |-> [a EXCEPT !.budget_disabled = TRUE],
          ledger |-> [self EXCEPT !.month_budget = budget_str.f]]
    ELSE [app |-> a, ledger |-> self]

Call(op, r) ==
    [op |-> op, raised |-> r.raised, exc |-> r.exc, ret |-> r.ret, reqs |-> r.reqs]

Init ==
    /\ impl \in Impls
    /\ \E o \in Outcomes :
          LET r == Ledger_init(impl, o)
          IN  /\ ~r.raised
              /\ ledger = r.self
              /\ lastOp = Call("init", r)
    /\ disk = [exists |-> FALSE, file |-> CsvFile(TRUE, <<>>)]
    /\ app = App_init
    /\ session = [calls |-> 0, stc_calls |-> 0, stc_true |-> 0, loads |-> 0,
                  first_target |-> ""]

\* A call of Ledger.add
Add ==
    /\ session.calls < MaxCalls
    /\ Len(ledger.rows) < MaxRows
    /\ \E amount \in Amounts, category \in CategoryArgs, note \in NoteArgs,
          date \in DateArgs, base_currency \in BaseCurrencyArgs,
          oh \in Outcomes, ol \in Outcomes :
          LET r == add(impl, ledger, amount, category, note, date, base_currency, oh, ol)
          IN  /\ ledger' = r.self
              /\ lastOp' = Call("add", r)
    /\ session' = [session EXCEPT !.calls = @ + 1]
    /\ UNCHANGED <<impl, disk, app>>

\* A call of Ledger.set_target_currency
SetTargetCurrency ==
    /\ session.calls < MaxCalls
    /\ \E currency \in TargetArgs :
          \E r \in set_target_currency(impl, ledger, currency) :
              /\ ledger' = r.self
              /\ lastOp' = Call("set_target_currency", r)
              /\ session' = [session EXCEPT
                                !.calls = @ + 1,
                                !.stc_calls = @ + 1,
                                !.stc_true = IF r.ret = "true" THEN @ + 1 ELSE @,
                                !.first_target = IF session.stc_calls = 0 THEN currency ELSE @]
    /\ UNCHANGED <<impl, disk, app>>

\* A call of Ledger.remove_by_indices
RemoveByIndices ==
    /\ session.calls < MaxCalls
    /\ \E indices \in IndexArgs :
          LET r == remove_by_indices(ledger, indices)
          IN  /\ ledger' = r.self
              /\ lastOp' = Call("remove_by_indices", r)
    /\ session' = [session EXCEPT !.calls = @ + 1]
    /\ UNCHANGED <<impl, disk, app>>

\* A call of Ledger.save_csv; open(path, "w") fails on a path that is not
\* writable.
SaveCsv ==
    /\ session.calls < MaxCalls
    /\ \E writable \in BOOLEAN :
          /\ disk' = IF writable THEN [exists |-> TRUE, file |-> save_csv(ledger)] ELSE disk
          /\ lastOp' = Call("save_csv", Result(ledger, IF writable THEN "" ELSE "OSError", "none", 0))
    /\ session' = [session EXCEPT !.calls = @ + 1]
    /\ UNCHANGED <<impl, ledger, app>>

\* A call of Ledger.load_csv on a path that cannot be opened, on the file
\* save_csv wrote, or on another file.
LoadCsv ==
    /\ session.calls < MaxCalls
    /\ \E readable \in BOOLEAN :
          \E file \in IF readable
                      THEN ImportFiles \cup (IF disk.exists THEN {disk.file} ELSE {})
                      ELSE {CsvFile(TRUE, <<>>)} :
              LET r == load_csv(ledger, readable, file)
              IN  /\ ledger' = r.self
                  /\ lastOp' = Call("load_csv", r)
    /\ session' = [session EXCEPT !.calls = @ + 1, !.loads = @ + 1]
    /\ UNCHANGED <<impl, disk, app>>

\* App._set_budget_dialog: the one writer of Ledger.month_budget
SetBudget ==
    /\ session.calls < MaxCalls
    /\ \E b \in BudgetArgs :
          LET r == App_set_budget_dialog(app, ledger, b)
          IN  /\ ledger' = r.ledger
              /\ app' = r.app
              /\ lastOp' = Call("set_budget", Result(ledger, "", "none", 0))
    /\ session' = [session EXCEPT !.calls = @ + 1]
    /\ UNCHANGED <<impl, disk>>

\* App._show_currency_dialog: refreshes Ledger.exchange_rate when the latest
\* rate is fetched, then builds the Set Target Currency button, "enabled"
\* or "disabled"
ShowCurrencyDialog ==
    /\ session.calls < MaxCalls
    /\ \E o \in Outcomes :
          LET r == get_exchange_rate(impl, ledger.base_currency, ledger.target_currency, o)
          IN  /\ ledger' = IF ~r.raised /\ r.val.some
                           THEN [ledger EXCEPT !.exchange_rate = r.val] ELSE ledger
              /\ lastOp' = Call("show_currency_dialog",
                                Result(ledger, IF r.raised THEN "KeyError" ELSE "",
                                       IF r.raised THEN "none"
                                       ELSE IF app.target_disabled \/ ledger.target_currency_locked
                                            THEN "disabled"
                                       ELSE "enabled",
                                       r.reqs))
    /\ session' = [session EXCEPT !.calls = @ + 1]
    /\ UNCHANGED <<impl, disk, app>>

Next ==
    \/ Add
    \/ SetTargetCurrency
    \/ RemoveByIndices
    \/ SaveCsv
    \/ LoadCsv
    \/ SetBudget
    \/ ShowCurrencyDialog

Spec == Init /\ [][Next]_vars


\* ------------------------------------------- the monthly views of a ledger
\* Records a ledger can hold when its views are read: built by add at the
\* rate 1.0, or (the amount 1.004) read by load_csv from a file.
MonthRow(category, date, amount) ==
    Row(date, Round2(amount, 10), "SGD", amount, "CNY", category, <<"a">>, 10)

MonthRows ==
    { MonthRow("Food", <<2026, 11, 5>>, 10000),
      MonthRow("Rent", <<2026, 11, 5>>, 10000),
      MonthRow("Food", <<2026, 11, 3>>, 20000),
      MonthRow("Rent", <<2026, 10, 31>>, 50000),
      MonthRow("Fun", <<2026, 11, 3>>, 1004),
      MonthRow("Fun", <<2026, 11>>, 5000) }

MonthLedgers ==
    UNION { [1..n -> MonthRows] : n \in 0..MaxMonthRows }

ViewsInit ==
    /\ impl \in Impls
    /\ \E rows \in MonthLedgers :
          ledger = [Ledger_init(impl, "ok").self EXCEPT !.rows = rows]
    /\ lastOp = Call("init", Ledger_init(impl, "ok"))
    /\ disk = [exists |-> FALSE, file |-> CsvFile(TRUE, <<>>)]
    /\ app = App_init
    /\ session = [calls |-> 0, stc_calls |-> 0, stc_true |-> 0, loads |-> 0,
                  first_target |-> ""]

\* A call of Ledger.total_this_month (App._refresh_totals)
TotalThisMonth ==
    /\ lastOp' = Call("total_this_month", Result(ledger, "", total_this_month(ledger), 0))
    /\ UNCHANGED <<impl, ledger, disk, app, session>>

\* A call of Ledger.summary_by_category (App._refresh_category_summary)
SummaryByCategory ==
    /\ lastOp' = Call("summary_by_category", Result(ledger, "", summary_by_category(ledger), 0))
    /\ UNCHANGED <<impl, ledger, disk, app, session>>

\* A call of Ledger.daily_totals_this_month (App._open_charts)
DailyTotalsThisMonth ==
    /\ lastOp' = Call("daily_totals_this_month",
                      Result(ledger, "", daily_totals_this_month(ledger), 0))
    /\ UNCHANGED <<impl, ledger, disk, app, session>>

ViewsNext ==
    \/ TotalThisMonth
    \/ SummaryByCategory
    \/ DailyTotalsThisMonth

SpecViews == ViewsInit /\ [][ViewsNext]_vars


\* ------------------------------------------------- the two rate lookups
\* Arguments the lookups are called with: currencies, and date strings
\* "2024-01-15", "2024-01", "2024" and one that no format parses.
LookupCurrencies == {"SGD", "CNY", "USD"}
LookupDates == {<<2024, 1, 15>>, <<2024, 1>>, <<2024>>, <<>>}

\* A call of a lookup: its arguments, the service's outcome, its result.
LookupCall(op, base, target, date, o, r) ==
    [op |-> op, base |-> base, target |-> target, date |-> date, outcome |-> o,
     raised |-> r.raised, exc |-> IF r.raised THEN "KeyError" ELSE "",
     ret |-> r.val, reqs |-> r.reqs]

LookupsInit ==
    /\ impl \in Impls
    /\ ledger = Ledger_init(impl, "ok").self
    /\ lastOp = Call("init", Ledger_init(impl, "ok"))
    /\ disk = [exists |-> FALSE, file |-> CsvFile(TRUE, <<>>)]
    /\ app = App_init
    /\ session = [calls |-> 0, stc_calls |-> 0, stc_true |-> 0, loads |-> 0,
                  first_target |-> ""]

\* A call of get_historical_exchange_rate
HistoricalLookup ==
    /\ \E base \in LookupCurrencies, target \in LookupCurrencies,
          date \in LookupDates, o \in Outcomes :
          lastOp' = LookupCall("get_historical_exchange_rate", base, target, date, o,
                               get_historical_exchange_rate(impl, base, target, date, o))
    /\ UNCHANGED <<impl, ledger, disk, app, session>>

\* A call of get_exchange_rate
LatestLookup ==
    /\ \E base \in LookupCurrencies, target \in LookupCurrencies, o \in Outcomes :
          lastOp' = LookupCall("get_exchange_rate", base, target, <<>>, o,
                               get_exchange_rate(impl, base, target, o))
    /\ UNCHANGED <<impl, ledger, disk, app, session>>

LookupsNext ==
    \/ HistoricalLookup
    \/ LatestLookup

SpecLookups == LookupsInit /\ [][LookupsNext]_vars


\* ---------------------------------------------------------------- the App

\* What the user types or picks in the add-expense dialog: the amount field
\* (text float() rejects, "-1", "0", "0.004", "10.126"), the date field
\* (two valid days, "2024-01", a day in the future) and the currency box.
AmountTexts ==
    { [num |-> FALSE, val |-> 0], [num |-> TRUE, val |-> 0 - 1000],
      [num |-> TRUE, val |-> 0], [num |-> TRUE, val |-> 4], [num |-> TRUE, val |-> 10126] }
DialogDates == {Today, <<2024, 1, 15>>, <<2024, 1>>, <<2026, 12, 1>>}
DialogCurrencies == {"SGD", "USD"}

\* sorted(self.ledger.rows, key=lambda x: x["date"]): stable, so a record
\* goes behind the records of the same date that precede it.
RECURSIVE SortedByDateKey(_)
SortedByDateKey(rows) ==
    IF rows = <<>> THEN <<>>
    ELSE LET rest == SortedByDateKey(SubSeq(rows, 1, Len(rows) - 1))
             e == rows[Len(rows)]
             n == Cardinality({i \in 1..Len(rest) : ~StrLess(e.date, rest[i].date)})
         IN  SubSeq(rest, 1, n) \o <<e>> \o SubSeq(rest, n + 1, Len(rest))

\* App._refresh_table: the records the table shows, top to bottom.
App_refresh_table(self) == SortedByDateKey(self.rows)

\* The outcome of an App handler: the App and the ledger it leaves, the
\* exception that left it, and what it did.
Handled(a, self, exc, ret, reqs) ==
    [app |-> a, self |-> self, raised |-> exc # "", exc |-> exc, ret |-> ret, reqs |-> reqs]

\* The checks of App._on_add_dialog before it calls Ledger.add: the amount
\* text is a float that is not <= 0, the date text has the format
\* %Y-%m-%d and is not after today.
DialogAmountValid(amt) == amt.num /\ ~(amt.val <= 0)
DialogDateValid(date) == Len(date) = 3 /\ ~StrLess(Today, date)
DialogInputValid(date, amt) == DialogAmountValid(amt) /\ DialogDateValid(date)

\* App._on_add_dialog
App_on_add_dialog(a, self, date, amt, currency, cat, note, oh, ol) ==
    IF ~DialogAmountValid(amt) THEN Handled(a, self, "", "invalid amount", 0)
    ELSE IF ~DialogDateValid(date) THEN Handled(a, self, "", "invalid date", 0)
    ELSE LET r == add(impl, self, amt.val, cat, note, date, currency, oh, ol)
         IN  IF r.raised THEN Handled(a, r.self, r.exc, "none", r.reqs)
             ELSE Handled([a EXCEPT !.target_disabled = TRUE,
                                    !.budget_disabled = TRUE,
                                    !.tree = App_refresh_table(r.self)],
                          r.self, "", "added", r.reqs)

\* The selections of the table: the positions (0-based, top to bottom) of
\* one or more of its rows.
Selections(tree) ==
    {<<i>> : i \in 0..(Len(tree) - 1)}
    \cup {s \in {<<i, j>> : i \in 0..(Len(tree) - 1), j \in 0..(Len(tree) - 1)} : s[1] < s[2]}

\* for i in items: self.tree.delete(i): the table rows left, from row k on.
RECURSIVE DeleteItems(_, _, _)
DeleteItems(tree, k, items) ==
    IF k > Len(tree) THEN <<>>
    ELSE (IF \E j \in 1..Len(items) : items[j] = k - 1 THEN <<>> ELSE <<tree[k]>>)
         \o DeleteItems(tree, k + 1, items)

\* App._delete_selected on a selection that is not empty.
App_delete_selected(a, self, items) ==
    LET r == remove_by_indices(self, items)
    IN  IF r.raised THEN Handled(a, r.self, r.exc, "none", 0)
        ELSE Handled([a EXCEPT !.tree = DeleteItems(a.tree, 1, items)], r.self, "", "deleted", 0)

\* App._set_target_currency_dialog, the command of the Set Target Currency
\* button: the set of its possible outcomes.
App_set_target_currency_dialog(a, self, currency) ==
    { IF r.raised THEN Handled(a, r.self, r.exc, "none", r.reqs)
      ELSE IF r.ret = "true"
           THEN Handled([a EXCEPT !.target_disabled = TRUE, !.tree = App_refresh_table(r.self)],
                        r.self, "", "true", r.reqs)
      ELSE Handled(a, r.self, "", "false", r.reqs)
      : r \in set_target_currency(impl, self, currency) }

\* App._import_csv on a chosen path: every exception of load_csv is caught.
App_import_csv(a, self, readable, file) ==
    LET r == load_csv(self, readable, file)
    IN  IF r.raised THEN Handled(a, r.self, "", "load failed", 0)
        ELSE Handled([a EXCEPT !.tree = App_refresh_table(r.self),
                               !.target_disabled = @ \/ r.self.target_currency_locked,
                               !.budget_disabled = TRUE],
                     r.self, "", "loaded", 0)

\* The Add button of the add-expense dialog
OnAddDialog ==
    /\ session.calls < MaxCalls
    /\ Len(ledger.rows) < MaxRows
    /\ \E date \in DialogDates, amt \in AmountTexts, currency \in DialogCurrencies,
          cat \in CategoryArgs, note \in NoteArgs :
          \E oh \in IF DialogInputValid(date, amt) THEN Outcomes ELSE {"ok"},
             ol \in IF DialogInputValid(date, amt) THEN Outcomes ELSE {"ok"} :
          LET h == App_on_add_dialog(app, ledger, date, amt, currency, cat, note, oh, ol)
          IN  /\ ledger' = h.self
              /\ app' = h.app
              /\ lastOp' = Call("on_add_dialog", h)
    /\ session' = [session EXCEPT !.calls = @ + 1]
    /\ UNCHANGED <<impl, disk>>

\* The add-expense dialog opened with its Set Budget button enabled (it is
\* disabled when the dialog opens with budget_disabled set) and the button
\* pressed once
SetBudgetDialog ==
    /\ ~app.budget_disabled
    /\ SetBudget

\* The Delete Selected button, with some rows of the table selected
DeleteSelected ==
    /\ session.calls < MaxCalls
    /\ \E items \in Selections(app.tree) :
          LET h == App_delete_selected(app, ledger, items)
          IN  /\ ledger' = h.self
              /\ app' = h.app
              /\ lastOp' = Call("delete_selected", h)
    /\ session' = [session EXCEPT !.calls = @ + 1]
    /\ UNCHANGED <<impl, disk>>

\* The currency-settings dialog opened (which refreshes the cached rate) and
\* its Set Target Currency button, enabled, pressed
SetTargetCurrencyDialog ==
    /\ session.calls < MaxCalls
    /\ ~(app.target_disabled \/ ledger.target_currency_locked)
    /\ \E o \in Outcomes, currency \in TargetArgs :
          LET r == get_exchange_rate(impl, ledger.base_currency, ledger.target_currency, o)
              opened == IF r.val.some THEN [ledger EXCEPT !.exchange_rate = r.val] ELSE ledger
          IN  /\ ~r.raised
              /\ \E h \in App_set_target_currency_dialog(app, opened, currency) :
                    /\ ledger' = h.self
                    /\ app' = h.app
                    /\ lastOp' = Call("set_target_currency_dialog", h)
                    /\ session' = [session EXCEPT
                                      !.calls = @ + 1,
                                      !.stc_calls = @ + 1,
                                      !.stc_true = IF h.ret = "true" THEN @ + 1 ELSE @,
                                      !.first_target = IF session.stc_calls = 0 THEN currency ELSE @]
    /\ UNCHANGED <<impl, disk>>

\* The Import CSV button, with a path chosen
ImportCsv ==
    /\ session.calls < MaxCalls
    /\ \E readable \in BOOLEAN :
          \E file \in IF readable THEN ImportFiles ELSE {CsvFile(TRUE, <<>>)} :
              LET h == App_import_csv(app, ledger, readable, file)
              IN  /\ ledger' = h.self
                  /\ app' = h.app
                  /\ lastOp' = Call("import_csv", h)
    /\ session' = [session EXCEPT !.calls = @ + 1, !.loads = @ + 1]
    /\ UNCHANGED <<impl, disk>>

AppNext ==
    \/ OnAddDialog
    \/ SetBudgetDialog
    \/ DeleteSelected
    \/ ShowCurrencyDialog
    \/ SetTargetCurrencyDialog
    \/ ImportCsv

SpecApp == Init /\ [][AppNext]_vars


\* ================================================================ claims
\* Which call a step is.
AddStep == lastOp'.op = "add" /\ session'.calls = session.calls + 1
SetTargetStep == session'.stc_calls = session.stc_calls + 1
LoadStep == session'.loads = session.loads + 1

\* amount == round(base_amount * exchange_rate, 2) for a record
AmountMatches(row) == row.amount = Round2(row.base_amount * row.exchange_rate, 100)

\* C1: in a session of add and set_target_currency calls (no import), every
\* record satisfies amount == round(base_amount * exchange_rate, 2), with
\* base_amount the stored, already rounded value.
C1_AmountIsRoundedProduct ==
    session.loads = 0 => \A k \in 1..Len(ledger.rows) : AmountMatches(ledger.rows[k])

\* C2: in a session without load_csv, once set_target_currency has been
\* called it has returned True exactly once, on its first call: every later
\* call returned False, and target_currency is the currency the first call
\* was given.
C2_TrueExactlyOnce ==
    (session.loads = 0 /\ session.stc_calls >= 1) =>
        /\ session.stc_true = 1
        /\ ledger.target_currency = session.first_target
        /\ (lastOp.op = "set_target_currency" /\ session.stc_calls >= 2) => lastOp.ret = "false"

\* C3: target_currency_locked is monotonic: no step of any operation,
\* returning or raising, takes it from true to false.
C3_LockMonotonic ==
    [][ledger.target_currency_locked => ledger'.target_currency_locked]_vars

\* C3 witness: a ledger locked by set_target_currency, still locked after a
\* load_csv that raised.
C3_Witness ==
    /\ ledger.target_currency_locked
    /\ session.stc_true = 1
    /\ lastOp.op = "load_csv"
    /\ lastOp.raised

C5_LoadAllOrNothing ==
    [][(LoadStep /\ lastOp'.exc = "ValueError") => ledger' = ledger]_vars

\* C6: when the lookups return a rate or None (none of them raises), add
\* does not raise and the record it appends has a positive exchange_rate.
C6_AddNeverRaises ==
    (lastOp.op = "add" /\ lastOp.exc # "KeyError") =>
        /\ ~lastOp.raised
        /\ ledger.rows # <<>>
        /\ ledger.rows[Len(ledger.rows)].exchange_rate > 0

\* The rate C7 says add stores, given what the two lookups return.
ClaimedRate(self, base_curr, h, l) ==
    IF h.val.some THEN h.val
    ELSE IF l.val.some THEN l.val
    ELSE IF base_curr = self.base_currency THEN self.exchange_rate
    ELSE Some(10)

\* C7: for every add call and every pair of lookup results (a rate or None)
\* that the call can have had, the stored rate is the historical rate if there
\* is one, else the latest rate if there is one, else the cached default rate
\* for a record in the ledger's base currency and 1.0 for any other; and no
\* latest request is sent when the historical lookup gave a rate.
C7_RateOrder ==
    [][AddStep =>
        \A base_currency \in BaseCurrencyArgs, date \in DateArgs,
           oh \in Outcomes, ol \in Outcomes,
           amount \in Amounts, category \in CategoryArgs, note \in NoteArgs :
            LET base_curr == IF base_currency # NoArg THEN base_currency
                             ELSE ledger.base_currency
                date_str == IF date # <<>> THEN date ELSE Today
                h == get_historical_exchange_rate(impl, base_curr, ledger.target_currency,
                                                  date_str, oh)
                l == get_exchange_rate(impl, base_curr, ledger.target_currency, ol)
                claimed == ClaimedRate(ledger, base_curr, h, l)
                r == add(impl, ledger, amount, category, note, date, base_currency, oh, ol)
            IN  ( /\ ledger' = r.self
                  /\ lastOp' = Call("add", r)
                  /\ ~h.raised
                  /\ h.val.some \/ ~l.raised
                  /\ claimed.some ) =>
                    /\ ~r.raised
                    /\ r.self.rows[Len(r.self.rows)].exchange_rate = claimed.rate
                    /\ h.val.some => r.reqs = h.reqs]_vars

\* The rates the three-tier resolution with 1.0 as last resort can give a
\* record when the target becomes currency.
ResolvedRates(row, currency) ==
    { h.val.rate : h \in { x \in { get_historical_exchange_rate(impl, row.base_currency,
                                        currency, row.date, o) : o \in Outcomes }
                           : ~x.raised /\ x.val.some } }
    \cup { l.val.rate : l \in { x \in { get_exchange_rate(impl, row.base_currency, currency, o)
                                        : o \in Outcomes }
                                : ~x.raised /\ x.val.some } }
    \cup {10}

\* C8: after the first set_target_currency call of a session without import
\* (a call on an unlocked ledger) the call has returned True and every
\* record is updated: it carries the new target currency, a rate resolved
\* for its base currency, the new target and its date (1.0 at worst), and
\* the amount recomputed from that rate.
C8_EveryRecordUpdated ==
    (lastOp.op = "set_target_currency" /\ session.stc_calls = 1 /\ session.loads = 0) =>
        /\ lastOp.ret = "true"
        /\ \A k \in 1..Len(ledger.rows) :
              /\ ledger.rows[k].target_currency = ledger.target_currency
              /\ ledger.rows[k].exchange_rate \in ResolvedRates(ledger.rows[k], ledger.target_currency)
              /\ AmountMatches(ledger.rows[k])

\* C9: a set_target_currency call on a locked ledger returns False, leaves
\* the whole ledger (every record, target_currency, target_currency_locked,
\* month_budget) as it was and sends no request to the rate service.
C9_LockedCallChangesNothing ==
    [][(SetTargetStep /\ ledger.target_currency_locked) =>
          /\ ledger' = ledger
          /\ lastOp'.ret = "false"
          /\ ~lastOp'.raised
          /\ lastOp'.reqs = 0]_vars

\* C9 witness: set_target_currency has returned False on a ledger that holds
\* a record.
C9_Witness ==
    /\ lastOp.op = "set_target_currency"
    /\ lastOp.ret = "false"
    /\ ledger.rows # <<>>

\* C10: an add call that returns has appended exactly one record at the end;
\* an add call, returning or not, changes nothing else: the records already
\* present keep their positions and values, and target_currency,
\* target_currency_locked, base_currency, month_budget (and the cached rate)
\* are as before.
C10_AddOnlyAppends ==
    [][AddStep =>
          /\ Len(ledger'.rows) = Len(ledger.rows) + (IF lastOp'.raised THEN 0 ELSE 1)
          /\ SubSeq(ledger'.rows, 1, Len(ledger.rows)) = ledger.rows
          /\ [ledger' EXCEPT !.rows = ledger.rows] = ledger]_vars

\* C10 witness: add has returned on a ledger that already held a record.
C10_Witness ==
    /\ lastOp.op = "add"
    /\ ~lastOp.raised
    /\ Len(ledger.rows) = 2

\* t is s without its leading and trailing blanks.
IsStripped(t, s) ==
    /\ t # <<>> => (t[1] # " " /\ t[Len(t)] # " ")
    /\ \E i \in 1..(Len(s) + 1), j \in 0..Len(s) :
          /\ t = SubSeq(s, i, j)
          /\ \A k \in 1..Len(s) : (k < i \/ k > j) => s[k] = " "

\* The rates add can resolve for a record of this base currency and date.
AddRates(self, base_curr, date_str) ==
    { r.val.rate : r \in { x \in { add_rate(impl, self, base_curr, date_str, oh, ol)
                                    : oh \in Outcomes, ol \in Outcomes }
                            : ~x.raised /\ x.val.some } }

\* C11: the record an add call appends has base_amount = round(amount, 2),
\* exchange_rate = a rate resolved for its base currency and date,
\* amount = round(amount * rate, 2) computed from the amount given (not from
\* base_amount), target_currency = the ledger's target_currency before the
\* call, and the note given without its leading and trailing blanks.
C11_AppendedRecord ==
    [][(AddStep /\ ~lastOp'.raised) =>
          LET row == ledger'.rows[Len(ledger'.rows)]
          IN  /\ row.target_currency = ledger.target_currency
              /\ row.exchange_rate \in AddRates(ledger, row.base_currency, row.date)
              /\ \E amount \in Amounts :
                    /\ row.base_amount = Round2(amount, 10)
                    /\ row.amount = Round2(amount * row.exchange_rate, 100)
              /\ \E note \in NoteArgs : IsStripped(row.note, note)
              /\ row.category \in CategoryArgs]_vars

\* C11 witness: add has appended a record for the amount 10.126 at the rate
\* 5.8: base_amount 10.13, amount 58.73, note "a".
C11_Witness ==
    /\ lastOp.op = "add"
    /\ ~lastOp.raised
    /\ ledger.rows # <<>>
    /\ LET row == ledger.rows[Len(ledger.rows)]
       IN  /\ row.base_amount = 10130
           /\ row.exchange_rate = 58
           /\ row.amount = 58730
           /\ row.note = <<"a">>

SaveStep == lastOp'.op = "save_csv" /\ session'.calls = session.calls + 1

\* The ledgers Ledger() can construct.
FreshLedgers ==
    { r.self : r \in { x \in { Ledger_init(impl, o) : o \in Outcomes } : ~x.raised } }

RemoveStep == lastOp'.op = "remove_by_indices" /\ session'.calls = session.calls + 1

\* The call remove_by_indices(indices) is what this step did.
RemoveStepOf(indices) ==
    /\ ledger' = remove_by_indices(ledger, indices).self
    /\ lastOp' = Call("remove_by_indices", remove_by_indices(ledger, indices))

\* Every position given is one of 0..len(records)-1.
InRange(rows, indices) ==
    \A j \in 1..Len(indices) : 0 <= indices[j] /\ indices[j] < Len(rows)

\* The records whose 0-based position is not among those given, in order.
RECURSIVE UnnamedFrom(_, _, _)
UnnamedFrom(rows, k, indices) ==
    IF k > Len(rows) THEN <<>>
    ELSE (IF \E j \in 1..Len(indices) : indices[j] = k - 1 THEN <<>> ELSE <<rows[k]>>)
         \o UnnamedFrom(rows, k + 1, indices)

\* C13: for every collection of in-range positions, in any order,
\* remove_by_indices returns and leaves exactly the records whose original
\* position is not in the collection, in their original order.
C13_RemovesExactlyNamed ==
    [][RemoveStep =>
          \A indices \in IndexArgs :
              (RemoveStepOf(indices) /\ InRange(ledger.rows, indices)) =>
                  /\ ~lastOp'.raised
                  /\ ledger'.rows = UnnamedFrom(ledger.rows, 1, indices)]_vars

\* The same for collections that name no position twice.
C13_DistinctPositions ==
    [][RemoveStep =>
          \A indices \in IndexArgs :
              ( /\ RemoveStepOf(indices)
                /\ InRange(ledger.rows, indices)
                /\ \A j, k \in 1..Len(indices) : j # k => indices[j] # indices[k] ) =>
                  /\ ~lastOp'.raised
                  /\ ledger'.rows = UnnamedFrom(ledger.rows, 1, indices)]_vars

\* C14: remove_by_indices given a position outside 0..len(records)-1, too
\* large or negative, raises.
C14_OutOfRangeRaises ==
    [][RemoveStep =>
          \A indices \in IndexArgs :
              (RemoveStepOf(indices) /\ ~InRange(ledger.rows, indices)) =>
                  lastOp'.raised]_vars

\* The record's date starts with the current YYYY-MM.
InMonth(row) ==
    Len(row.date) >= 2 /\ row.date[1] = Today[1] /\ row.date[2] = Today[2]

\* The sum of amount over the records at the positions in ks.
RECURSIVE AmountOver(_, _)
AmountOver(rows, ks) ==
    IF ks = {} THEN 0
    ELSE LET k == CHOOSE x \in ks : TRUE
         IN  rows[k].amount + AmountOver(rows, ks \ {k})

\* The positions of the current-month records, and of those with a given
\* value of a field.
MonthPositions(rows) == {k \in 1..Len(rows) : InMonth(rows[k])}
PositionsOf(rows, field, v) == {k \in MonthPositions(rows) : rows[k][field] = v}

\* The sum of the totals of a sequence of (key, total) entries.
RECURSIVE SumOfTotals(_)
SumOfTotals(entries) ==
    IF entries = <<>> THEN 0 ELSE Head(entries)[2] + SumOfTotals(Tail(entries))

\* The position at which a value of a field is first met among the
\* current-month records.
FirstMet(rows, field, v) ==
    CHOOSE k \in PositionsOf(rows, field, v) : \A j \in PositionsOf(rows, field, v) : k <= j

\* C15: in every ledger state, the value total_this_month() returns equals
\* the sum of the values of summary_by_category().
C15_TotalIsSumOfSummary ==
    lastOp.op = "summary_by_category" =>
        SumOfTotals(lastOp.ret) = total_this_month(ledger)

\* C16: total_this_month() is the sum of amount over exactly the records
\* whose date starts with the current YYYY-MM, rounded to 2 digits, hence
\* 0.00 when there is none.
C16_TotalOfCurrentMonth ==
    lastOp.op = "total_this_month" =>
        /\ lastOp.ret = 10 * RoundHalfEven(AmountOver(ledger.rows, MonthPositions(ledger.rows)), 10)
        /\ MonthPositions(ledger.rows) = {} => lastOp.ret = 0

\* C16 witness: the total was read on a ledger that holds a record of the
\* current month and one of another month.
C16_Witness ==
    /\ lastOp.op = "total_this_month"
    /\ lastOp.ret > 0
    /\ \E j, k \in 1..Len(ledger.rows) : InMonth(ledger.rows[j]) /\ ~InMonth(ledger.rows[k])

\* C17: summary_by_category() has one entry per category met among the
\* current-month records, its value the sum of their amounts; the entries
\* are in descending order of total, and entries of equal total in the
\* order in which their categories were first met.
C17_SummaryOrdered ==
    lastOp.op = "summary_by_category" =>
        LET s == lastOp.ret
            rows == ledger.rows
        IN  /\ {s[i][1] : i \in 1..Len(s)} = {rows[k].category : k \in MonthPositions(rows)}
            /\ \A i, j \in 1..Len(s) : i # j => s[i][1] # s[j][1]
            /\ \A i \in 1..Len(s) :
                  s[i][2] = AmountOver(rows, PositionsOf(rows, "category", s[i][1]))
            /\ \A i, j \in 1..Len(s) :
                  i < j => \/ s[i][2] > s[j][2]
                           \/ /\ s[i][2] = s[j][2]
                              /\ FirstMet(rows, "category", s[i][1])
                                   < FirstMet(rows, "category", s[j][1])

\* C17 witness: a summary of three categories: two of equal total in the
\* order in which they were met, then the one of smallest total, though it
\* was met first.
C17_Witness ==
    /\ lastOp.op = "summary_by_category"
    /\ Len(lastOp.ret) = 3
    /\ lastOp.ret[1][2] = lastOp.ret[2][2]
    /\ lastOp.ret[2][2] > lastOp.ret[3][2]
    /\ FirstMet(ledger.rows, "category", lastOp.ret[3][1]) = 1

\* C18: daily_totals_this_month() has exactly one entry per date met among
\* the current-month records, its total the sum of that date's amounts, and
\* the entries are in strictly ascending order of the date string.
C18_DailyTotalsAscending ==
    lastOp.op = "daily_totals_this_month" =>
        LET s == lastOp.ret
            rows == ledger.rows
        IN  /\ {s[i][1] : i \in 1..Len(s)} = {rows[k].date : k \in MonthPositions(rows)}
            /\ \A i \in 1..Len(s) :
                  s[i][2] = AmountOver(rows, PositionsOf(rows, "date", s[i][1]))
            /\ \A i, j \in 1..Len(s) : i < j => StrLess(s[i][1], s[j][1])

\* C18 witness: daily totals of two dates read on a ledger whose records
\* were inserted latest date first, one date holding two records.
C18_Witness ==
    /\ lastOp.op = "daily_totals_this_month"
    /\ Len(lastOp.ret) = 2
    /\ Len(ledger.rows) = 3
    /\ ledger.rows[1].date = lastOp.ret[2][1]
    /\ ledger.rows[2].date = lastOp.ret[2][1]
    /\ ledger.rows[3].date = lastOp.ret[1][1]

\* The target currency C19 names for a list of loaded records.
LoadedTarget(rows) ==
    IF rows # <<>> /\ rows[1].target_currency # "" THEN rows[1].target_currency ELSE "CNY"

LoadStepOf(file) ==
    /\ ledger' = load_csv(ledger, TRUE, file).self
    /\ lastOp' = Call("load_csv", load_csv(ledger, TRUE, file))

\* The records a file's lines stand for, in file order.
FileRows(file) == [k \in 1..Len(file.lines) |-> ReadLine(file, file.lines[k])]

\* C20: after a load_csv that completes, the record list is exactly the
\* file's rows in file order: none of the records held before the call
\* remains, however many there were.
C20_LoadReplacesRecords ==
    [][(LoadStep /\ ~lastOp'.raised) =>
          \A file \in ImportFiles \cup {disk.file} :
              LoadStepOf(file) => ledger'.rows = FileRows(file)]_vars

\* C20 witness: a ledger that held a record built by add (and saved since)
\* has completed the load of another file and holds that file's one row.
C20_Witness ==
    /\ lastOp.op = "load_csv"
    /\ ~lastOp.raised
    /\ session.calls = 3
    /\ session.loads = 1
    /\ disk.exists
    /\ Len(disk.file.lines) = 1
    /\ Len(ledger.rows) = 1
    /\ ledger.rows[1].date = <<2024, 1, 15>>

\* Every numeric field of the file's lines is the text of a number, except
\* that an exchange_rate field may be empty.
WellFormedButRate(file) ==
    \A k \in 1..Len(file.lines) :
        /\ file.lines[k].base_amount.kind = "num"
        /\ file.lines[k].amount.kind = "num"
        /\ file.rate_col => file.lines[k].exchange_rate.kind \in {"num", "empty"}

\* C21: load_csv does not fail on a file whose exchange_rate column is
\* absent, nor on one with an empty exchange_rate field, and gives each
\* record concerned the exchange_rate 1.0.
C21_MissingRateIsOne ==
    [][LoadStep =>
          \A file \in ImportFiles \cup {disk.file} :
              (LoadStepOf(file) /\ WellFormedButRate(file)) =>
                  /\ ~lastOp'.raised
                  /\ Len(ledger'.rows) = Len(file.lines)
                  /\ \A k \in 1..Len(file.lines) :
                        (~file.rate_col \/ file.lines[k].exchange_rate.kind = "empty") =>
                            ledger'.rows[k].exchange_rate = 10]_vars

\* The part of C21 about a file without the exchange_rate column.
C21_AbsentColumnIsOne ==
    [][LoadStep =>
          \A file \in ImportFiles \cup {disk.file} :
              (LoadStepOf(file) /\ WellFormedButRate(file) /\ ~file.rate_col) =>
                  /\ ~lastOp'.raised
                  /\ \A k \in 1..Len(file.lines) : ledger'.rows[k].exchange_rate = 10]_vars

IsLookup == lastOp.op \in {"get_historical_exchange_rate", "get_exchange_rate"}

\* C22: called with base equal to target, the historical and the latest
\* lookup both return 1.0 and send no request to the rate service, in both
\* implementations.
C22_SameCurrencyNoRequest ==
    (IsLookup /\ lastOp.base = lastOp.target) =>
        /\ ~lastOp.raised
        /\ lastOp.ret = Some(10)
        /\ lastOp.reqs = 0

\* The historical half of C22.
C22_HistoricalSameCurrency ==
    (lastOp.op = "get_historical_exchange_rate" /\ lastOp.base = lastOp.target) =>
        /\ ~lastOp.raised
        /\ lastOp.ret = Some(10)
        /\ lastOp.reqs = 0

\* C23: no lookup lets an exception reach its caller; for different
\* currencies a lookup returns None on every failure outcome of the service
\* (network error or timeout, HTTP error, answer without the target
\* currency), and the historical one on a date no format parses.
C23_LookupsNeverRaise ==
    IsLookup =>
        /\ ~lastOp.raised
        /\ (lastOp.base # lastOp.target /\ lastOp.outcome # "ok") => lastOp.ret = Nothing
        /\ ( /\ lastOp.op = "get_historical_exchange_rate"
             /\ lastOp.base # lastOp.target
             /\ lastOp.date = <<>> ) => lastOp.ret = Nothing

\* C24: in a session of add, remove_by_indices and set_target_currency
\* calls (no import), whatever the rate service does, every record's
\* target_currency is the ledger's target_currency.
C24_RecordsInLedgerTarget ==
    session.loads = 0 =>
        \A k \in 1..Len(ledger.rows) :
            ledger.rows[k].target_currency = ledger.target_currency

\* C25: every record created through the App's add dialog has a strictly
\* positive base_amount: whenever _on_add_dialog accepts its input and adds
\* a record, the base_amount stored in that record (after rounding) is > 0,
\* and an input it rejects leaves the ledger as it was.
AddDialogStep == lastOp'.op = "on_add_dialog" /\ session'.calls = session.calls + 1

C25_DialogStoresPositiveAmount ==
    [][AddDialogStep =>
         /\ lastOp'.ret = "added" =>
               /\ Len(ledger'.rows) = Len(ledger.rows) + 1
               /\ ledger'.rows[Len(ledger'.rows)].base_amount > 0
         /\ lastOp'.ret \in {"invalid amount", "invalid date"} => ledger' = ledger]_vars

\* C26: month_budget is a number >= 0 in every state the App can reach:
\* _set_budget_dialog stores only numbers that are >= 0 and leaves the
\* budget as it was on any other input.
C26_BudgetNonNegative ==
    /\ ~ledger.month_budget.nan
    /\ ledger.month_budget.val >= 0

\* C27: _delete_selected removes from the ledger exactly the records that
\* the selected table rows display: after it, the ledger holds the records
\* displayed by the rows that were not selected (each as many times as it
\* is displayed there), whatever the order in which the records were added.
BagOf(seq) ==
    [x \in {seq[i] : i \in DOMAIN seq} |-> Cardinality({i \in DOMAIN seq : seq[i] = x})]

DeleteStep == lastOp'.op = "delete_selected" /\ session'.calls = session.calls + 1

DeleteStepOf(items) ==
    LET h == App_delete_selected(app, ledger, items)
    IN  /\ DeleteStep
        /\ ledger' = h.self
        /\ app' = h.app
        /\ lastOp' = Call("delete_selected", h)

C27_DeletesDisplayedRecords ==
    [][\A items \in Selections(app.tree) :
          (DeleteStepOf(items) /\ BagOf(app.tree) = BagOf(ledger.rows))
              => BagOf(ledger'.rows) = BagOf(DeleteItems(app.tree, 1, items))]_vars

\* C28 (xxxxxxxxx.py): whenever add falls back to the cached
\* self.exchange_rate (both lookups returned None and the record's currency
\* is the ledger's base currency), the cached rate is the rate of the pair
\* (ledger base currency, ledger's current target currency): no stale rate
\* of an earlier target is used after set_target_currency succeeded.
C28_CachedRateIsOfLedgerPair ==
    [][AddStep =>
        \A base_currency \in BaseCurrencyArgs, date \in DateArgs,
           oh \in Outcomes, ol \in Outcomes,
           amount \in Amounts, category \in CategoryArgs, note \in NoteArgs :
            LET base_curr == IF base_currency # NoArg THEN base_currency
                             ELSE ledger.base_currency
                date_str == IF date # <<>> THEN date ELSE Today
                h == get_historical_exchange_rate(impl, base_curr, ledger.target_currency,
                                                  date_str, oh)
                l == get_exchange_rate(impl, base_curr, ledger.target_currency, ol)
                r == add(impl, ledger, amount, category, note, date, base_currency, oh, ol)
            IN  ( /\ ledger' = r.self
                  /\ lastOp' = Call("add", r)
                  /\ impl = "xxxxxxxxx"
                  /\ ~h.raised /\ ~h.val.some
                  /\ ~l.raised /\ ~l.val.some
                  /\ base_curr = ledger.base_currency
                  /\ ledger.exchange_rate.some )
                => ledger.exchange_rate.rate
                       = LatestRate(ledger.base_currency, ledger.target_currency)]_vars

\* C30: remove_by_indices is atomic on error: when a call raises for an
\* invalid position, the record list is exactly as it was before the call.
C30_RemoveAtomicOnError ==
    [][RemoveStep =>
        \A indices \in IndexArgs :
            ( /\ RemoveStepOf(indices)
              /\ ~InRange(ledger.rows, indices)
              /\ lastOp'.raised )
            => ledger'.rows = ledger.rows]_vars

\* C29: through the App, set_target_currency succeeds at most once per
\* session and only while the ledger holds no records: whenever the Set
\* Target Currency button is enabled, pressed, and the call returns True,
\* no earlier press had succeeded and the ledger held no records.
SetTargetDialogStep ==
    lastOp'.op = "set_target_currency_dialog" /\ session'.calls = session.calls + 1

C29_TargetSetOnceOnEmptyLedger ==
    [][(SetTargetDialogStep /\ lastOp'.ret = "true")
          => (session.stc_true = 0 /\ ledger.rows = <<>>)]_vars

====
